---- MODULE Spec2Model ----
(***************************************************************************)
(* CrazyCar simulation controller (src/c): the shared state cells of       *)
(* sim_globals.c, the exported entry points of cc-lib.c, and the sensor    *)
(* linearization and driving policy of myFunktions.c.                      *)
(***************************************************************************)
EXTENDS Integers, FiniteSets, Sequences, TLC

(* ------------------------------------------------------------------ *)
(* Program constants                                                    *)
(* ------------------------------------------------------------------ *)
LINEAR_A == 23962
LINEAR_B == 20
ADC_MIN_CLAMP == 163
ADC_MAX_CLAMP == 770
COS_0_DEG == 100
Kpz == 3
Kpn == 8
\* Literals of fahren1
AVOID_LIMIT == 50
REVERSE_POWER == -20
FORWARD_POWER == 25
AVOID_STEER == 10
WIGGLE == 10
WIGGLE_PERIOD == 10
WIGGLE_HALF == 5
BOOT_SIG_INIT == 0
\* Startup deadzone of the simulator the driving logic has to stay above
DEADZONE_MIN == 18

(* ------------------------------------------------------------------ *)
(* Bounds of the model                                                  *)
(* ------------------------------------------------------------------ *)
\* Width in bits of the C int that holds boot_sig.  The build has a 32-bit
\* int; the model keeps the two's-complement shape at a width TLC can walk.
IntBits == 4
\* Half-width of the dense windows of raw ADC samples around 0, the two
\* clamp limits and the top of the uint16 range.
AdcMargin == 3
\* Number of evenly spaced raw ADC samples strictly inside the clamp range.
AdcInner == 12
\* Angle factors 0..CosDense are all sampled.
CosDense == 3
\* Controller ticks a run of the shipped build follows in Spec.
ShortTicks == 2

INT_MAX == 2 ^ (IntBits - 1) - 1
INT_MIN == -(2 ^ (IntBits - 1))
\* Controller ticks a long run follows: enough to pass the wrap of boot_sig.
LongTicks == INT_MAX + 5

UINT16_MAX == 2 ^ 16 - 1
UINT8_MAX == 2 ^ 8 - 1

(* ------------------------------------------------------------------ *)
(* C integer arithmetic                                                 *)
(* ------------------------------------------------------------------ *)
\* conversion to uint16_t / uint8_t
U16(x) == x % 65536
U8(x) == x % 256
\* conversion to uint32_t: every operand it is applied to is non-negative and
\* below 2^31 (the largest is 23962 * 100), so reduction modulo 2^32 leaves it
\* unchanged; 2^32 itself is beyond the integers TLC computes with.
U32(x) == x
\* conversion to int16_t (two's complement)
S16(x) == LET m == x % 65536 IN IF m >= 32768 THEN m - 65536 ELSE m
\* C division and remainder truncate toward zero (b > 0)
CDiv(a, b) == IF a >= 0 THEN a \div b ELSE -((-a) \div b)
CRem(a, b) == a - b * CDiv(a, b)

(* ------------------------------------------------------------------ *)
(* State                                                                *)
(* ------------------------------------------------------------------ *)
VARIABLES
    fwert,          \* power command output
    swert,          \* steering command output
    leistung_now,   \* acknowledged power
    winkel_now,     \* acknowledged steering angle
    abstandvorne,   \* front distance cell (cm)
    abstandlinks,   \* left distance cell (cm)
    abstandrechts,  \* right distance cell (cm)
    boot_sig,       \* static countdown of fahren1
    boot_init,      \* the initializer boot_sig was built with
    phase,          \* branch the latest controller tick took
    ticks,          \* number of controller ticks executed so far
    call,           \* last entry point executed: arguments, wrapper's return
    lin             \* direct calls of linearisierungAD: arguments and results

cells == <<abstandvorne, abstandlinks, abstandrechts>>
cmds == <<fwert, swert>>
acks == <<leistung_now, winkel_now>>
policy == <<boot_sig, boot_init, phase, ticks>>
vars == <<fwert, swert, leistung_now, winkel_now, abstandvorne, abstandlinks,
          abstandrechts, boot_sig, boot_init, phase, ticks, call, lin>>

(* ------------------------------------------------------------------ *)
(* Sensor linearization (myFunktions.c)                                 *)
(* ------------------------------------------------------------------ *)
\* --- variants of linearisierungAD with one slip each ---
\* multiplies by 100 before the division by (messwert + LINEAR_B)
linearisierungAD_MulFirst(messwert, cosAlpha) ==
    LET m1 == IF messwert < ADC_MIN_CLAMP THEN ADC_MIN_CLAMP ELSE messwert
        m2 == IF m1 > ADC_MAX_CLAMP THEN ADC_MAX_CLAMP ELSE m1
        c  == IF cosAlpha = 0 THEN 1 ELSE cosAlpha
    IN  U16(U32((LINEAR_A * 100) \div U32(m2 + LINEAR_B)) \div c)

\* no upper clamp
linearisierungAD_NoMaxClamp(messwert, cosAlpha) ==
    LET m1 == IF messwert < ADC_MIN_CLAMP THEN ADC_MIN_CLAMP ELSE messwert
        cm == LINEAR_A \div U32(m1 + LINEAR_B)
        c  == IF cosAlpha = 0 THEN 1 ELSE cosAlpha
    IN  U16(U32(cm * 100) \div c)

\* a zero angle factor replaced by COS_0_DEG instead of 1
linearisierungAD_ZeroIsFull(messwert, cosAlpha) ==
    LET m1 == IF messwert < ADC_MIN_CLAMP THEN ADC_MIN_CLAMP ELSE messwert
        m2 == IF m1 > ADC_MAX_CLAMP THEN ADC_MAX_CLAMP ELSE m1
        cm == LINEAR_A \div U32(m2 + LINEAR_B)
        c  == IF cosAlpha = 0 THEN COS_0_DEG ELSE cosAlpha
    IN  U16(U32(cm * 100) \div c)

\* the upper clamp pins to ADC_MIN_CLAMP (the line above it, copied)
linearisierungAD_MaxToMin(messwert, cosAlpha) ==
    LET m1 == IF messwert < ADC_MIN_CLAMP THEN ADC_MIN_CLAMP ELSE messwert
        m2 == IF m1 > ADC_MAX_CLAMP THEN ADC_MIN_CLAMP ELSE m1
        cm == LINEAR_A \div U32(m2 + LINEAR_B)
        c  == IF cosAlpha = 0 THEN 1 ELSE cosAlpha
    IN  U16(U32(cm * 100) \div c)

linearisierungAD(messwert, cosAlpha) ==
    LET m1 == IF messwert < ADC_MIN_CLAMP THEN ADC_MIN_CLAMP ELSE messwert
        m2 == IF m1 > ADC_MAX_CLAMP THEN ADC_MAX_CLAMP ELSE m1
        cm == LINEAR_A \div U32(m2 + LINEAR_B)
        c  == IF cosAlpha = 0 THEN 1 ELSE cosAlpha
        cm2 == U32(cm * 100) \div c
    IN  U16(cm2)

\* The three distance cells as the wrappers see them.
Cells == [vorne |-> abstandvorne, links |-> abstandlinks, rechts |-> abstandrechts]

\* Each wrapper stores into its cell and returns the cell.
linearisierungVorne(analogwert) ==
    LET c1 == [Cells EXCEPT !.vorne = linearisierungAD(analogwert, U8(COS_0_DEG))]
    IN  [cells |-> c1, ret |-> c1.vorne]

linearisierungLinks(analogwert, cosAlpha) ==
    LET c1 == [Cells EXCEPT !.links = linearisierungAD(analogwert, cosAlpha)]
    IN  [cells |-> c1, ret |-> c1.links]

\* variant: the right wrapper stores into the left cell (copied from Links)
linearisierungRechts_LeftCell(analogwert, cosAlpha) ==
    LET c1 == [Cells EXCEPT !.links = linearisierungAD(analogwert, cosAlpha)]
    IN  [cells |-> c1, ret |-> c1.links]

linearisierungRechts(analogwert, cosAlpha) ==
    LET c1 == [Cells EXCEPT !.rechts = linearisierungAD(analogwert, cosAlpha)]
    IN  [cells |-> c1, ret |-> c1.rechts]

(* ------------------------------------------------------------------ *)
(* Controller helpers and driving logic (myFunktions.c)                 *)
(* ------------------------------------------------------------------ *)
\* variant: the process variable of lo() (left distance alone)
mo_LeftOnly(w) ==
    LET y == S16(abstandlinks)
        e == S16(S16(w) - y)
    IN  S16(CDiv(S16(e * Kpz), Kpn))

mo(w) ==
    LET y == S16(S16(abstandlinks) - S16(abstandrechts))
        e == S16(S16(w) - y)
        u == S16(CDiv(S16(e * Kpz), Kpn))
    IN  u

\* Setters of the command cells (cc-lib.c), called by the driving logic.
fahr(f) == fwert' = f
servo(s) == swert' = s
getFahr == leistung_now
getServo == winkel_now

\* Read-back entry points (cc-lib.c).
getfwert == fwert
getswert == swert
get_abstandvorne == abstandvorne
get_abstandrechts == abstandrechts
get_abstandlinks == abstandlinks

\* The value boot_sig holds after `boot_sig--`.  Decrementing INT_MIN is a
\* signed overflow: the build either wraps to INT_MAX or traps.
PostDecrement(b) ==
    IF b > INT_MIN
    THEN {[trap |-> FALSE, val |-> b - 1]}
    ELSE {[trap |-> FALSE, val |-> INT_MAX], [trap |-> TRUE, val |-> b]}

\* variant: pre-decrement, the test sees the decremented value
WarmupTest_PreDecrement(old, new) == new > 0

\* `boot_sig-- > 0`: the test sees the value before the decrement.
WarmupTest(old, new) == old > 0

\* The wiggle of the warmup, computed from the decremented countdown.
WarmupSteer(new) ==
    IF CRem(new, WIGGLE_PERIOD) < WIGGLE_HALF THEN WIGGLE ELSE -WIGGLE

\* variant: avoidance only while reversing
AvoidTrigger_ReverseOnly(leistung) ==
    /\ leistung < 0
    /\ \/ abstandlinks < AVOID_LIMIT
       \/ abstandvorne < AVOID_LIMIT
       \/ abstandrechts < AVOID_LIMIT

\* variant: avoidance only while a nonzero power is acknowledged
AvoidTrigger_WhileMoving(leistung) ==
    /\ leistung # 0
    /\ \/ abstandlinks < AVOID_LIMIT
       \/ abstandvorne < AVOID_LIMIT
       \/ abstandrechts < AVOID_LIMIT

\* The avoidance condition of fahren1.
AvoidTrigger(leistung) ==
    \/ abstandlinks < AVOID_LIMIT
    \/ abstandvorne < AVOID_LIMIT
    \/ abstandrechts < AVOID_LIMIT
    \/ /\ leistung < 0
       /\ \/ abstandlinks < AVOID_LIMIT
          \/ abstandvorne < AVOID_LIMIT
          \/ abstandrechts < AVOID_LIMIT

\* variant: the tie goes to the left
AvoidSteer_TieLeft ==
    IF abstandlinks >= abstandrechts THEN AVOID_STEER ELSE -AVOID_STEER

\* The steering of the avoidance branch.
AvoidSteer ==
    IF abstandlinks > abstandrechts THEN AVOID_STEER ELSE -AVOID_STEER

fahren1 ==
    \E o \in PostDecrement(boot_sig) :
        IF o.trap
        THEN UNCHANGED <<cmds, boot_sig, phase>>
        ELSE /\ boot_sig' = o.val
             /\ IF WarmupTest(boot_sig, o.val)
                THEN /\ fahr(0)
                     /\ servo(WarmupSteer(o.val))
                     /\ phase' = "warmup"
                ELSE LET leistung == getFahr IN
                     /\ IF AvoidTrigger(leistung)
                        THEN /\ fahr(REVERSE_POWER)
                             /\ servo(AvoidSteer)
                        ELSE /\ fahr(FORWARD_POWER)
                             /\ servo(mo(0))
                     /\ phase' = "drive"

(* ------------------------------------------------------------------ *)
(* Exported entry points (cc-lib.c)                                     *)
(* ------------------------------------------------------------------ *)
Called(op, analogwert, cosAlpha, ret) ==
    [op |-> op, analogwert |-> analogwert, cosAlpha |-> cosAlpha, ret |-> ret]

Running == call.op # "abort" /\ lin.pc = "idle"

fahr_entry(f) ==
    /\ Running
    /\ fahr(f)
    /\ call' = Called("fahr", 0, 0, 0)
    /\ UNCHANGED <<swert, acks, cells, policy, lin>>

servo_entry(s) ==
    /\ Running
    /\ servo(s)
    /\ call' = Called("servo", 0, 0, 0)
    /\ UNCHANGED <<fwert, acks, cells, policy, lin>>

getfahr(leistung) ==
    /\ Running
    /\ leistung_now' = leistung
    /\ call' = Called("getfahr", 0, 0, 0)
    /\ UNCHANGED <<cmds, winkel_now, cells, policy, lin>>

getservo(winkel) ==
    /\ Running
    /\ winkel_now' = winkel
    /\ call' = Called("getservo", 0, 0, 0)
    /\ UNCHANGED <<cmds, leistung_now, cells, policy, lin>>

getabstandvorne(analogwert) ==
    /\ Running
    /\ LET w == linearisierungVorne(analogwert) IN
       /\ abstandvorne' = w.ret
       /\ abstandlinks' = w.cells.links
       /\ abstandrechts' = w.cells.rechts
       /\ call' = Called("getabstandvorne", analogwert, COS_0_DEG, w.ret)
    /\ UNCHANGED <<cmds, acks, policy, lin>>

getabstandrechts(analogwert, cosAlpha) ==
    /\ Running
    /\ LET w == linearisierungRechts(analogwert, cosAlpha) IN
       /\ abstandrechts' = w.ret
       /\ abstandvorne' = w.cells.vorne
       /\ abstandlinks' = w.cells.links
       /\ call' = Called("getabstandrechts", analogwert, cosAlpha, w.ret)
    /\ UNCHANGED <<cmds, acks, policy, lin>>

getabstandlinks(analogwert, cosAlpha) ==
    /\ Running
    /\ LET w == linearisierungLinks(analogwert, cosAlpha) IN
       /\ abstandlinks' = w.ret
       /\ abstandvorne' = w.cells.vorne
       /\ abstandrechts' = w.cells.rechts
       /\ call' = Called("getabstandlinks", analogwert, cosAlpha, w.ret)
    /\ UNCHANGED <<cmds, acks, policy, lin>>

\* One controller tick; the run follows at most `cap` of them.  A trapped
\* decrement ends the process inside the call.
regelungtechnik(cap) ==
    /\ Running
    /\ ticks < cap
    /\ fahren1
    /\ IF boot_sig' = boot_sig
       THEN call' = Called("abort", 0, 0, 0) /\ ticks' = ticks
       ELSE call' = Called("regelungtechnik", 0, 0, 0) /\ ticks' = ticks + 1
    /\ UNCHANGED <<acks, cells, boot_init, lin>>

(* ------------------------------------------------------------------ *)
(* Inputs the simulator passes in                                       *)
(* ------------------------------------------------------------------ *)
\* Raw front samples: 179 -> 120 cm, 1023 -> 30 cm.
FrontInputs == {179, 1023}
\* Raw side samples with their angle factor: 40, 50, 60 and 12000 cm.
SideInputs == {<<1023, 75>>, <<1023, 60>>, <<1023, 50>>, <<179, 0>>}
PowerInputs == {-30, 10, 30}
AngleInputs == {5}
ThrottleInputs == {18}
SteerInputs == {-5}
\* The reduced inputs of the long runs: 120 cm ahead or 30 cm, 120 cm aside.
LongFrontInputs == {179, 1023}
LongSideInputs == {<<179, 100>>}
LongPowerInputs == {-30}

LinIdle == [pc |-> "idle", raw1 |-> 0, raw2 |-> 0, factor |-> 0, res1 |-> 0, res2 |-> 0]

\* State at load time (sim_globals.c, and the static of fahren1).
Load(n) ==
    /\ fwert = 0
    /\ swert = 0
    /\ leistung_now = 0
    /\ winkel_now = 0
    /\ abstandvorne = 0
    /\ abstandlinks = 0
    /\ abstandrechts = 0
    /\ boot_sig = n
    /\ boot_init = n
    /\ phase = "load"
    /\ ticks = 0
    /\ call = Called("load", 0, 0, 0)

Init ==
    /\ Load(BOOT_SIG_INIT)
    /\ lin = LinIdle

Next ==
    \/ \E f \in ThrottleInputs : fahr_entry(f)
    \/ \E s \in SteerInputs : servo_entry(s)
    \/ \E p \in PowerInputs : getfahr(p)
    \/ \E a \in AngleInputs : getservo(a)
    \/ \E a \in FrontInputs : getabstandvorne(a)
    \/ \E s \in SideInputs : getabstandlinks(s[1], s[2])
    \/ \E s \in SideInputs : getabstandrechts(s[1], s[2])
    \/ regelungtechnik(ShortTicks)

Spec == Init /\ [][Next]_vars

\* The shipped build followed past the wrap of boot_sig.
NextLong ==
    \/ \E p \in LongPowerInputs : getfahr(p)
    \/ \E a \in LongFrontInputs : getabstandvorne(a)
    \/ \E s \in LongSideInputs : getabstandlinks(s[1], s[2])
    \/ \E s \in LongSideInputs : getabstandrechts(s[1], s[2])
    \/ regelungtechnik(LongTicks)

SpecLong == Init /\ [][NextLong]_vars

\* Builds with the countdown initializer set to n.
InitWarm ==
    /\ \E n \in 0..INT_MAX : Load(n)
    /\ lin = LinIdle

SpecWarm == InitWarm /\ [][NextLong]_vars

(* ------------------------------------------------------------------ *)
(* Direct calls of the pure function linearisierungAD                   *)
(* ------------------------------------------------------------------ *)
InnerStep == (ADC_MAX_CLAMP - ADC_MIN_CLAMP) \div (AdcInner + 1)
AdcInputs ==
    (0 .. AdcMargin)
    \cup ((ADC_MIN_CLAMP - AdcMargin) .. (ADC_MIN_CLAMP + AdcMargin))
    \cup {ADC_MIN_CLAMP + k * InnerStep : k \in 1..AdcInner}
    \cup ((ADC_MAX_CLAMP - AdcMargin) .. (ADC_MAX_CLAMP + AdcMargin))
    \cup {1023}
    \cup ((UINT16_MAX - AdcMargin) .. UINT16_MAX)
CosInputs == (0 .. CosDense) \cup {50, 60, 75, 99, 100, 101, 200, UINT8_MAX}

InitLin ==
    /\ Load(BOOT_SIG_INIT)
    /\ \E r1 \in AdcInputs, r2 \in AdcInputs, f \in CosInputs :
         lin = [pc |-> "call", raw1 |-> r1, raw2 |-> r2, factor |-> f,
                res1 |-> 0, res2 |-> 0]

LinCall ==
    /\ lin.pc = "call"
    /\ lin' = [lin EXCEPT !.pc = "done",
                          !.res1 = linearisierungAD(lin.raw1, lin.factor),
                          !.res2 = linearisierungAD(lin.raw2, lin.factor)]
    /\ UNCHANGED <<cmds, acks, cells, policy, call>>

NextLin == LinCall

SpecLin == InitLin /\ [][NextLin]_vars

(* ================================================================== *)
(* Properties                                                           *)
(* ================================================================== *)
\* The distance the documentation gives for a raw sample and angle factor.
ClampAdc(raw) ==
    IF raw < 163 THEN 163 ELSE IF raw > 770 THEN 770 ELSE raw
DocDistance(raw, factor) ==
    ((23962 \div (ClampAdc(raw) + 20)) * 100) \div (IF factor = 0 THEN 1 ELSE factor)

\* C1: for every raw_adc and every cos_alpha_scaled, linearisierungAD returns
\* ((23962 div (r + 20)) * 100) div c, r the raw value clamped to [163, 770]
\* and c the factor with 0 replaced by 1; linearisierungAD(163, 100) = 130
\* and linearisierungAD(770, 100) = 30.
C1_LinearizationFormula ==
    lin.pc = "done" =>
        /\ lin.res1 = DocDistance(lin.raw1, lin.factor)
        /\ lin.res2 = DocDistance(lin.raw2, lin.factor)
        /\ (lin.raw1 = 163 /\ lin.factor = 100) => lin.res1 = 130
        /\ (lin.raw2 = 770 /\ lin.factor = 100) => lin.res2 = 30

C1_Witness ==
    /\ lin.pc = "done"
    /\ lin.raw1 = 163 /\ lin.raw2 = 770 /\ lin.factor = 100
    /\ lin.res1 = 130 /\ lin.res2 = 30

\* C2: a raw_adc below 163 gives the result of raw_adc = 163 and a raw_adc
\* above 770 gives the result of raw_adc = 770, for every angle factor.
C2_OutOfRangePinned ==
    lin.pc = "done" =>
        /\ (lin.raw1 < 163 /\ lin.raw2 = 163) => lin.res1 = lin.res2
        /\ (lin.raw1 > 770 /\ lin.raw2 = 770) => lin.res1 = lin.res2

C2_Witness ==
    /\ lin.pc = "done"
    /\ lin.raw1 = 65535 /\ lin.raw2 = 770 /\ lin.factor = 75
    /\ lin.res1 = 40 /\ lin.res2 = 40

\* C3: linearisierungAD(raw_adc, 0) returns the distance of
\* linearisierungAD(raw_adc, 1) for every raw_adc.
C3_ZeroFactorIsOne ==
    (lin.pc = "done" /\ lin.factor = 0) =>
        /\ lin.res1 = linearisierungAD(lin.raw1, 1)
        /\ lin.res2 = linearisierungAD(lin.raw2, 1)

C3_Witness ==
    /\ lin.pc = "done"
    /\ lin.factor = 0 /\ lin.raw1 = 163 /\ lin.raw2 = 1023
    /\ lin.res1 = 13000 /\ lin.res2 = 3000

\* C4: for a fixed angle factor and raw1 <= raw2, the result for raw1 is at
\* least the result for raw2, as returned (after the conversion to uint16).
C4_Monotone ==
    (lin.pc = "done" /\ lin.raw1 <= lin.raw2) => lin.res1 >= lin.res2

C4_Witness ==
    /\ lin.pc = "done"
    /\ lin.raw1 < lin.raw2 /\ lin.factor = 1
    /\ lin.res1 > lin.res2

\* A controller tick that ran the drive logic has just returned.
DriveTick == call.op = "regelungtechnik" /\ phase = "drive"
SomeClose == abstandvorne < 50 \/ abstandlinks < 50 \/ abstandrechts < 50

\* C5: after a drive tick with one of the three stored distances below 50
\* the throttle command is -20, whatever the acknowledged power, and the
\* steering command is +10 when left > right.
C5_AvoidanceReverses ==
    (DriveTick /\ SomeClose) =>
        /\ getfwert = -20
        /\ (abstandlinks > abstandrechts) => getswert = 10

C5_Witness ==
    /\ DriveTick
    /\ abstandvorne = 30 /\ abstandlinks = 60 /\ abstandrechts = 40
    /\ leistung_now = 10
    /\ fwert = -20 /\ swert = 10

\* C6: after a drive tick with all three stored distances at least 50 the
\* throttle command is at least the deadzone minimum 18, and the steering
\* command is 0 when left = right.
C6_NormalDriveForward ==
    (DriveTick /\ ~SomeClose) =>
        /\ getfwert >= DEADZONE_MIN
        /\ (abstandlinks = abstandrechts) => getswert = 0

C6_Witness ==
    /\ DriveTick
    /\ abstandvorne = 120 /\ abstandlinks = 50 /\ abstandrechts = 50
    /\ leistung_now = 30
    /\ fwert >= 18 /\ swert = 0

\* C7: a sensor update stores linearisierungAD of its arguments (factor 100
\* for the front) in its own cell, the wrapper returns the stored value, and
\* the other two cells, both commands and the acknowledged power and angle
\* keep their values.
C7_SensorUpdateFrame ==
    [][/\ call'.op = "getabstandvorne" =>
            /\ get_abstandvorne' = linearisierungAD(call'.analogwert, 100)
            /\ call'.ret = get_abstandvorne'
            /\ UNCHANGED <<abstandlinks, abstandrechts, cmds, acks>>
       /\ call'.op = "getabstandlinks" =>
            /\ get_abstandlinks' = linearisierungAD(call'.analogwert, call'.cosAlpha)
            /\ call'.ret = get_abstandlinks'
            /\ UNCHANGED <<abstandvorne, abstandrechts, cmds, acks>>
       /\ call'.op = "getabstandrechts" =>
            /\ get_abstandrechts' = linearisierungAD(call'.analogwert, call'.cosAlpha)
            /\ call'.ret = get_abstandrechts'
            /\ UNCHANGED <<abstandvorne, abstandlinks, cmds, acks>>
      ]_vars

C7_Witness ==
    /\ call.op = "getabstandrechts"
    /\ call.analogwert = 1023 /\ call.cosAlpha = 75
    /\ abstandrechts = 40 /\ call.ret = 40
    /\ abstandvorne = 120 /\ abstandlinks = 60
    /\ fwert = 25 /\ swert = 3 /\ leistung_now = 10 /\ winkel_now = 5

\* C8: once a tick has run the drive logic, every later tick runs the drive
\* logic: the warmup branch is never taken again.
C8_DriveTerminal ==
    [][phase = "drive" => phase' = "drive"]_vars

\* C9: built with countdown n, each of the first n ticks takes the warmup
\* branch, whatever the distance cells and the acknowledged power hold:
\* throttle 0, steering +10 or -10 by the half-period of 5 the remaining
\* countdown is in; tick n + 1 runs the drive logic (the first tick, n = 0).
C9_WarmupLength ==
    call.op = "regelungtechnik" =>
        /\ ticks <= boot_init =>
            /\ phase = "warmup"
            /\ getfwert = 0
            /\ getswert = (IF ((boot_init - ticks) % 10) < 5 THEN 10 ELSE -10)
        /\ ticks = boot_init + 1 => phase = "drive"

C9_Witness ==
    /\ call.op = "regelungtechnik"
    /\ boot_init = 5 /\ ticks = 5
    /\ phase = "warmup"
    /\ abstandvorne = 30 /\ leistung_now = -30
    /\ fwert = 0 /\ swert = 10

\* C10 as stated: on an avoidance tick with left >= right the steering
\* command is -10.
C10_SteersRightWhenLeftNotLess ==
    (DriveTick /\ SomeClose /\ abstandlinks >= abstandrechts) => getswert = -10

\* C10: on an avoidance tick the steering command is -10 whenever
\* left <= right, the tie left = right included.
C10_TieSteersRight ==
    (DriveTick /\ SomeClose /\ abstandlinks <= abstandrechts) => getswert = -10

C10_Witness ==
    /\ DriveTick
    /\ abstandlinks = 40 /\ abstandrechts = 40
    /\ fwert = -20 /\ swert = -10

\* C11: after a normal-drive tick (all three stored distances at least 50)
\* the steering command is (right - left) * 3 / 8 truncated toward zero,
\* for every left and right distance the update entry points store, so its
\* sign is never opposite to that of (right - left).
C11_SteerProportional ==
    (DriveTick /\ ~SomeClose) =>
        /\ getswert = CDiv((get_abstandrechts - get_abstandlinks) * 3, 8)
        /\ (get_abstandrechts > get_abstandlinks) => getswert >= 0
        /\ (get_abstandrechts < get_abstandlinks) => getswert <= 0

\* C12: the commands a drive tick leaves are fixed by the three stored
\* distances alone, so two states with the same distances and different
\* acknowledged power and angle get the same throttle and steering command;
\* the throttle command after a drive tick is -20 or 25.
C12_CommandsIgnoreAcks ==
    DriveTick =>
        /\ getfwert \in {-20, 25}
        /\ getfwert = (IF SomeClose THEN -20 ELSE 25)
        /\ getswert = (IF SomeClose
                       THEN (IF abstandlinks > abstandrechts THEN 10 ELSE -10)
                       ELSE mo(0))

C12_Witness ==
    /\ DriveTick
    /\ leistung_now = -30 /\ winkel_now = 5
    /\ abstandvorne = 120 /\ abstandlinks = 50 /\ abstandrechts = 60
    /\ fwert = 25 /\ swert = 3

====
